---- MODULE Spec2Model ----
(***************************************************************************)
(* bookchat: the message server (server.py), its source registry           *)
(* (repository_manager.py) and its local store (database.py).              *)
(*                                                                         *)
(* Time is counted in minutes.  datetime.now() is read as the variable     *)
(* `now`, which the environment only ever advances.  Text timestamps (the  *)
(* store's CURRENT_TIMESTAMP, datetime.isoformat()) are fixed-width digit  *)
(* strings, modelled as sequences of digits and compared as Python         *)
(* compares strings.                                                       *)
(***************************************************************************)
EXTENDS Integers, Sequences, FiniteSets, TLC

\* ------------------------------------------------------------------ bounds
MaxTime == 5        \* the clock runs from 0 to MaxTime
MaxRepos == 2       \* entries in the registry
MaxRows == 2        \* rows in the messages table
MaxCommits == 1     \* commits POST /chat adds to one remote repository
MaxHistory == 2     \* commits a remote repository holds when the process starts
MaxDate == 1        \* author dates of those commits run from 0 to MaxDate
MaxHandlers == 2    \* connections clients hold to the server at once
MaxSavers == 2      \* threads that call save_message at once
MaxPushes == 3      \* push_file calls on one working copy
MaxEnv == 2         \* GITHUB_REPO_* variables in the environment
MaxValueLen == 5    \* characters of a GITHUB_REPO_* value

\* ------------------------------------------------------- program constants
CACHE_DURATION == 5         \* timedelta(minutes=5)
DefaultLimit == 100         \* get_messages(limit=100)

\* --------------------------------------------------------------- the inputs
Owners == {"o"}
Names == {"a", "b"}
Tokens == {"t"}
RegistryTokens == {"t", "u"}    \* the tokens callers of the registry alone pass
Texts == {"", "hi"}         \* bodies of POST /chat: a missing/empty message, a message
None == -1                  \* Python's None / SQL NULL
GitHubUser == "u"           \* the author name GitHub reports for a commit
\* How one iteration of the loop of do_POST can end: every call succeeds; the
\* GitHub calls of lines 70-81 raise; the store's first INSERT raises.  The
\* name Github is not bound in server.py, so as shipped line 70 always raises
\* NameError; "ok" is the iteration once the name is bound.
PostOutcomes == {"ok", "remote_err", "store_err"}

VARIABLES
    now,                \* the wall clock read by datetime.now()
    repositories,       \* RepositoryManager.repositories
    db_repositories,    \* table repositories: sequence of rows, in rowid order
    db_messages,        \* table messages: sequence of rows, in rowid order
    remote,             \* the commits of each remote repository, newest first
    next_sha,           \* the next commit sha a remote hands out
    message_cache,      \* server.message_cache
    last_cache_update,  \* server.last_cache_update
    filled,             \* message_cache holds a list _get_all_messages computed
    posted,             \* ids of the rows written by successful POSTs not yet followed by a GET
    last,               \* what the most recent call did and returned
    held,               \* the list a caller of get_all_repositories still holds
    unresponsive,       \* the remotes that accept a request and never answer it
    cycle,              \* the fetch_messages_from_all call in progress
    handlers,           \* the request handler of each connection
    cache_of,           \* current_time of the refresh that computed message_cache
    removing,           \* the remove_repository call a thread is in
    savers,             \* the save_message call each thread is in
    returned,           \* the ids save_message calls have returned, in order
    git,                \* the working copy push_file runs git in, and the call in progress
    environ             \* the GITHUB_REPO_* values of os.environ, and whether they were loaded

vars == <<now, repositories, db_repositories, db_messages, remote, next_sha,
          message_cache, last_cache_update, filled, posted, last, held,
          unresponsive, cycle, handlers, cache_of, removing, savers, returned, git,
          environ>>

\* The calls of library callers' threads.
callers == <<removing, savers, returned, git, environ>>

\* What the calls that run from start to end in one step leave alone.
in_progress == <<unresponsive, cycle, handlers>>

\* ---------------------------------------------------------------- sequences
Range(s) == {s[i] : i \in DOMAIN s}

Take(s, n) == IF n >= Len(s) THEN s ELSE SubSeq(s, 1, n)

\* ------------------------------------------------------------------ strings
\* Python's str comparison: lexicographic, a proper prefix is smaller.
RECURSIVE StrLess(_, _)
StrLess(a, b) ==
    IF b = <<>> THEN FALSE
    ELSE IF a = <<>> THEN TRUE
    ELSE IF Head(a) # Head(b) THEN Head(a) < Head(b)
    ELSE StrLess(Tail(a), Tail(b))

\* SQLite's CURRENT_TIMESTAMP, 'YYYY-MM-DD HH:MM:SS': zero-padded, fixed width.
CurrentTimestamp(t) == <<t \div 10, t % 10>>

\* datetime.isoformat(), 'YYYY-MM-DDTHH:MM:SS': zero-padded, fixed width.
IsoFormat(t) == <<t \div 10, t % 10>>

\* Repository.full_name
full_name(repo) == <<repo.owner, repo.name>>

\* InsertDesc with reverse=True left out: the list is built ascending.
RECURSIVE InsertAsc(_, _)
InsertAsc(x, s) ==
    IF s = <<>> THEN <<x>>
    ELSE IF StrLess(x.timestamp, Head(s).timestamp) THEN <<x>> \o s
    ELSE <<Head(s)>> \o InsertAsc(x, Tail(s))

\* list.sort(key=lambda x: x['timestamp'], reverse=True): stable, descending.
RECURSIVE InsertDesc(_, _)
InsertDesc(x, s) ==
    IF s = <<>> THEN <<x>>
    ELSE IF StrLess(Head(s).timestamp, x.timestamp) THEN <<x>> \o s
    ELSE <<Head(s)>> \o InsertDesc(x, Tail(s))

RECURSIVE SortDesc(_)
SortDesc(s) ==
    IF s = <<>> THEN <<>>
    ELSE InsertDesc(s[Len(s)], SortDesc(SubSeq(s, 1, Len(s) - 1)))

\* ---------------------------------------------------------------- the store
\* Database.get_repository_id on the table tbl: the id of (owner, name), or None.
RepositoryIdIn(tbl, owner, name) ==
    IF \E i \in DOMAIN tbl : tbl[i].owner = owner /\ tbl[i].name = name
    THEN (CHOOSE r \in Range(tbl) : r.owner = owner /\ r.name = name).id
    ELSE None

get_repository_id(owner, name) == RepositoryIdIn(db_repositories, owner, name)

\* add_repository with a plain INSERT on a table without the UNIQUE
\* constraint.
db_add_repositoryInsert(repos, owner, name) ==
    Append(repos, [id |-> Len(repos) + 1, owner |-> owner, name |-> name])

\* Database.add_repository: INSERT OR IGNORE under UNIQUE(owner, name).
db_add_repository(repos, owner, name) ==
    IF \E i \in DOMAIN repos : repos[i].owner = owner /\ repos[i].name = name
    THEN repos
    ELSE Append(repos, [id |-> Len(repos) + 1, owner |-> owner, name |-> name])

\* save_message on a table whose id is a plain INTEGER PRIMARY KEY: the next
\* id is one more than the greatest id still in the table.
save_messageReusingIds(rows, message, repository_id, github_url, commit_sha, author) ==
    LET live == { rows[i].id : i \in { k \in DOMAIN rows : "deleted" \notin DOMAIN rows[k] } }
        greatest == IF live = {} THEN 0
                    ELSE CHOOSE m \in live : \A x \in live : x <= m
    IN  Append(rows, [id |-> greatest + 1, repository_id |-> repository_id,
                      message |-> message, timestamp |-> CurrentTimestamp(now),
                      github_url |-> github_url, commit_sha |-> commit_sha,
                      author |-> author])

\* Database.save_message: one INSERT; AUTOINCREMENT id, CURRENT_TIMESTAMP.
save_message(rows, message, repository_id, github_url, commit_sha, author) ==
    Append(rows, [id |-> Len(rows) + 1, repository_id |-> repository_id,
                  message |-> message, timestamp |-> CurrentTimestamp(now),
                  github_url |-> github_url, commit_sha |-> commit_sha,
                  author |-> author])

\* A row of messages that was deleted: AUTOINCREMENT (line 29) never hands
\* its id out again, so the table keeps the place of the row.
DeletedRow(id) == [id |-> id, deleted |-> TRUE]

\* The rows a SELECT on messages sees.
LiveRows(rows) == { m \in Range(rows) : "deleted" \notin DOMAIN m }

\* The rows of messages JOIN repositories [WHERE m.repository_id = ?], as the
\* dicts get_messages builds.  repository_id = None means no filter.
JoinedRows(repository_id) ==
    { [id |-> m.id, message |-> m.message, timestamp |-> m.timestamp,
       github_url |-> m.github_url, repository |-> <<r.owner, r.name>>,
       author |-> m.author, commit_sha |-> m.commit_sha] :
      <<m, r>> \in { p \in LiveRows(db_messages) \X Range(db_repositories) :
                       /\ p[1].repository_id = p[2].id
                       /\ (repository_id # None => p[1].repository_id = repository_id) } }

\* ORDER BY m.timestamp ASC.
RECURSIVE OrderByTimestampAsc(_)
OrderByTimestampAsc(S) ==
    IF S = {} THEN {<<>>}
    ELSE UNION { { <<x>> \o p : p \in OrderByTimestampAsc(S \ {x}) } :
                 x \in { y \in S : \A z \in S : ~StrLess(z.timestamp, y.timestamp) } }

\* ORDER BY m.timestamp DESC: every order of the rows that is descending by
\* timestamp; SQL leaves the order of rows with equal timestamps open.
RECURSIVE OrderByTimestampDesc(_)
OrderByTimestampDesc(S) ==
    IF S = {} THEN {<<>>}
    ELSE UNION { { <<x>> \o p : p \in OrderByTimestampDesc(S \ {x}) } :
                 x \in { y \in S : \A z \in S : ~StrLess(y.timestamp, z.timestamp) } }

\* Database.get_messages(limit, repository_id): the lists it can return.
get_messages(limit, repository_id) ==
    { Take(p, limit) : p \in OrderByTimestampDesc(JoinedRows(repository_id)) }

\* ------------------------------------------------------------- the registry
Repository(owner, name, token) ==
    [owner |-> owner, name |-> name, token |-> token, last_sync |-> None]

NoCall == [op |-> "none"]

\* No remove_repository call is in progress.
NoRemoval == [pc |-> "idle"]

\* The threads that call save_message, and a thread that is not in a call.
Savers == 1..MaxSavers
NotSaving == [pc |-> "idle"]

\* A working copy in which nothing is staged, committed or pushed, and no
\* push_file call in progress.
NoPush == [pc |-> "idle", file |-> "", ran |-> <<>>, staged |-> {},
           commits |-> <<>>, origin |-> <<>>, calls |-> 0]

\* A process started without GITHUB_REPO_* variables, its registry built.
NoEnviron == [values |-> <<>>, loaded |-> TRUE]

\* No fetch_messages_from_all call is in progress.
NoCycle == [pc |-> "idle"]

\* The connections clients hold to the server, and a connection with no
\* request on it.
Handlers == 1..MaxHandlers
Idle == [pc |-> "idle"]

\* ----------------------------------------------- _load_repositories_from_env
\* The characters of a GITHUB_REPO_* value: a letter and the two separators.
Chars == {"x", "/", ":"}

\* The strings of at most n characters, as sequences of characters.
Strings(n) == UNION { [1..k -> Chars] : k \in 0..n }

\* Python's s.split(sep) for a one-character sep: the pieces between the
\* separators, empty pieces included.
RECURSIVE Split(_, _)
Split(s, sep) ==
    IF \A i \in DOMAIN s : s[i] # sep THEN <<s>>
    ELSE LET i == CHOOSE k \in DOMAIN s :
                      s[k] = sep /\ \A j \in 1..(k - 1) : s[j] # sep
         IN  <<SubSeq(s, 1, i - 1)>> \o Split(SubSeq(s, i + 1, Len(s)), sep)

\* Lines 29-39 for one value: split at ':' into two pieces or skip (30-32);
\* split the first at '/', where unpacking anything but two pieces raises
\* ValueError, caught at line 38 (34-35); add_repository (37).
LoadOne(value, repos) ==
    LET repo_info == Split(value, ":")
    IN  IF Len(repo_info) # 2 THEN repos
        ELSE LET owner_repo == Split(repo_info[1], "/")
             IN  IF Len(owner_repo) # 2 THEN repos
                 ELSE Append(repos, Repository(owner_repo[1], owner_repo[2],
                                               repo_info[2]))

\* The loop of line 27 over the values, in os.environ's order.
RECURSIVE LoadLoop(_, _)
LoadLoop(values, repos) ==
    IF values = <<>> THEN repos
    ELSE LoadLoop(Tail(values), LoadOne(Head(values), repos))

\* RepositoryManager.__init__: the registry starts empty and is loaded.
LoadRepositoriesFromEnv ==
    /\ ~environ.loaded
    /\ repositories' = LoadLoop(environ.values, <<>>)
    /\ environ' = [environ EXCEPT !.loaded = TRUE]
    /\ last' = NoCall
    /\ UNCHANGED <<now, db_repositories, db_messages, remote, next_sha,
                   message_cache, last_cache_update, filled, posted, held,
                   in_progress, cache_of, removing, savers, returned, git>>

\* ------------------------------------------------ GitHubManager.push_file
\* The files callers push.
Files == {"f", "g"}

\* subprocess.run without check=True: a non-zero exit raises nothing.
RaisesUnchecked(ok) == FALSE

\* subprocess.run(..., check=True): a non-zero exit status raises
\* CalledProcessError.
Raises(ok) == ~ok

\* Lines 44-46: the except clause prints and push_file returns False.
\* Lines 42-43: after the third step push_file returns True.
PushReturn(ran, ret) == [op |-> "PUSH", ran |-> ran, ret |-> ret]

\* push_file(file_path, commit_message) is called: lines 26-28.
PushFile(file_name) ==
    /\ git.pc = "idle"
    /\ git.calls < MaxPushes
    /\ git' = [git EXCEPT !.pc = "l31", !.file = file_name, !.ran = <<>>,
                          !.calls = @ + 1]
    /\ last' = NoCall
    /\ UNCHANGED <<now, repositories, db_repositories, db_messages, remote, next_sha,
                   message_cache, last_cache_update, filled, posted, held,
                   in_progress, cache_of, removing, savers, returned, environ>>

\* Lines 31-32: git add file_name exits with status 0 (ok) or not.
GitAdd(ok) ==
    /\ git.pc = "l31"
    /\ LET ran == Append(git.ran, [cmd |-> "add", ok |-> ok])
           staged == IF ok THEN git.staged \cup {git.file} ELSE git.staged
       IN  IF Raises(ok)
           THEN /\ git' = [git EXCEPT !.pc = "idle", !.ran = ran, !.staged = staged]
                /\ last' = PushReturn(ran, FALSE)
           ELSE /\ git' = [git EXCEPT !.pc = "l35", !.ran = ran, !.staged = staged]
                /\ last' = last
    /\ UNCHANGED <<now, repositories, db_repositories, db_messages, remote, next_sha,
                   message_cache, last_cache_update, filled, posted, held,
                   in_progress, cache_of, removing, savers, returned, environ>>

\* Lines 35-36: git commit -m commit_message.
GitCommit(ok) ==
    /\ git.pc = "l35"
    /\ LET ran == Append(git.ran, [cmd |-> "commit", ok |-> ok])
           commits == IF ok THEN Append(git.commits, git.staged) ELSE git.commits
           staged == IF ok THEN {} ELSE git.staged
       IN  IF Raises(ok)
           THEN /\ git' = [git EXCEPT !.pc = "idle", !.ran = ran,
                                      !.commits = commits, !.staged = staged]
                /\ last' = PushReturn(ran, FALSE)
           ELSE /\ git' = [git EXCEPT !.pc = "l39", !.ran = ran,
                                      !.commits = commits, !.staged = staged]
                /\ last' = last
    /\ UNCHANGED <<now, repositories, db_repositories, db_messages, remote, next_sha,
                   message_cache, last_cache_update, filled, posted, held,
                   in_progress, cache_of, removing, savers, returned, environ>>

\* Lines 39-43: git push origin branch, and the return.
GitPush(ok) ==
    /\ git.pc = "l39"
    /\ LET ran == Append(git.ran, [cmd |-> "push", ok |-> ok])
           origin == IF ok THEN git.commits ELSE git.origin
       IN  /\ git' = [git EXCEPT !.pc = "idle", !.ran = ran, !.origin = origin]
           /\ last' = PushReturn(ran, ~Raises(ok))
    /\ UNCHANGED <<now, repositories, db_repositories, db_messages, remote, next_sha,
                   message_cache, last_cache_update, filled, posted, held,
                   in_progress, cache_of, removing, savers, returned, environ>>

\* ------------------------------------------- the store, called on its own
\* Database.add_repository(owner, name), returning ret.
DbAddRepository(owner, name) ==
    /\ db_repositories' = db_add_repository(db_repositories, owner, name)
    /\ Len(db_repositories') <= Cardinality(Owners \X Names)
    /\ last' = [op |-> "ENSURE", owner |-> owner, name |-> name,
                ret |-> RepositoryIdIn(db_repositories', owner, name),
                before |-> db_repositories]
    /\ UNCHANGED <<now, repositories, db_messages, remote, next_sha,
                   message_cache, last_cache_update, filled, posted, held,
                   in_progress, cache_of, callers>>

\* The greatest id save_message has returned so far, 0 if none.
MaxReturned ==
    IF returned = <<>> THEN 0
    ELSE CHOOSE m \in { returned[k].id : k \in DOMAIN returned } :
             \A k \in DOMAIN returned : returned[k].id <= m

\* A thread calls save_message(message, repository_id): lines 59-63 open a
\* connection of its own.
SaveBegin(t, message, repository_id) ==
    /\ savers[t] = NotSaving
    /\ Len(db_messages) + Cardinality({ u \in Savers : savers[u].pc = "l64" }) < MaxRows
    /\ savers' = [savers EXCEPT ![t] = [pc |-> "l64", message |-> message,
                                        repository_id |-> repository_id,
                                        floor |-> MaxReturned]]
    /\ UNCHANGED <<now, repositories, db_repositories, db_messages, remote, next_sha,
                   message_cache, last_cache_update, filled, posted, last, held,
                   in_progress, cache_of, removing, returned, git, environ>>

\* Lines 64-72: the INSERT and its commit, one SQLite transaction; the
\* cursor keeps the rowid of the row it inserted.
SaveWrite(t) ==
    /\ savers[t].pc = "l64"
    /\ db_messages' = save_message(db_messages, savers[t].message,
                                   savers[t].repository_id, None, None, None)
    /\ savers' = [savers EXCEPT ![t] =
                     [pc |-> "l73", message |-> @.message,
                      repository_id |-> @.repository_id, floor |-> @.floor,
                      lastrowid |-> db_messages'[Len(db_messages')].id]]
    /\ UNCHANGED <<now, repositories, db_repositories, remote, next_sha,
                   message_cache, last_cache_update, filled, posted, last, held,
                   in_progress, cache_of, removing, returned, git, environ>>

\* Lines 64-72 when SQLite raises (database locked, disk full): nothing in
\* save_message catches it, the with statement rolls back.
SaveFail(t) ==
    /\ savers[t].pc = "l64"
    /\ savers' = [savers EXCEPT ![t] = NotSaving]
    /\ last' = [op |-> "SAVE_ERROR", raised |-> TRUE, message |-> savers[t].message,
                rows |-> db_messages]
    /\ UNCHANGED <<now, repositories, db_repositories, db_messages, remote, next_sha,
                   message_cache, last_cache_update, filled, posted, held,
                   in_progress, cache_of, removing, returned, git, environ>>

\* cursor.lastrowid read from the rowid of the last row of the table.
LastRowIdOfTable(t) == Len(db_messages)

\* cursor.lastrowid (line 73): the rowid of the row this cursor inserted.
LastRowId(t) == savers[t].lastrowid

\* Line 73: the call returns.
SaveReturn(t) ==
    /\ savers[t].pc = "l73"
    /\ returned' = Append(returned, [id |-> LastRowId(t), message |-> savers[t].message])
    /\ last' = [op |-> "SAVE", id |-> LastRowId(t), message |-> savers[t].message,
                floor |-> savers[t].floor]
    /\ savers' = [savers EXCEPT ![t] = NotSaving]
    /\ UNCHANGED <<now, repositories, db_repositories, db_messages, remote, next_sha,
                   message_cache, last_cache_update, filled, posted, held,
                   in_progress, cache_of, removing, git, environ>>

\* Another user of chat.db deletes a row of messages.
DeleteMessage(id) ==
    /\ id \in DOMAIN db_messages
    /\ "deleted" \notin DOMAIN db_messages[id]
    /\ db_messages' = [db_messages EXCEPT ![id] = DeletedRow(db_messages[id].id)]
    /\ last' = NoCall
    /\ UNCHANGED <<now, repositories, db_repositories, remote, next_sha,
                   message_cache, last_cache_update, filled, posted, held,
                   in_progress, cache_of, callers>>

\* RepositoryManager.add_repository: line 45 appends to the list in place.
AddRepository(owner, name, token) ==
    /\ Len(repositories) < MaxRepos
    /\ repositories' = Append(repositories, Repository(owner, name, token))
    /\ last' = NoCall
    /\ UNCHANGED <<now, db_repositories, db_messages, remote, next_sha,
                   message_cache, last_cache_update, filled, posted, held,
                   in_progress, cache_of, callers>>

\* Without stopping at the first entry it drops, as list.remove would.
RECURSIVE WithoutFirst(_, _, _)
WithoutFirst(s, owner, name) ==
    IF s = <<>> THEN <<>>
    ELSE IF Head(s).owner = owner /\ Head(s).name = name
         THEN Tail(s)
         ELSE <<Head(s)>> \o WithoutFirst(Tail(s), owner, name)

\* The list comprehension of lines 49-52: the entries whose identity differs.
RECURSIVE Without(_, _, _)
Without(s, owner, name) ==
    IF s = <<>> THEN <<>>
    ELSE IF Head(s).owner = owner /\ Head(s).name = name
         THEN Without(Tail(s), owner, name)
         ELSE <<Head(s)>> \o Without(Tail(s), owner, name)

\* A caller holds no list; it holds the list object self.repositories is bound
\* to; it holds a list object of its own, with these items.
NoList == [kind |-> "none"]
TheRegistryList == [kind |-> "registry"]
OwnList(items) == [kind |-> "own", items |-> items]

\* What the list the caller holds contains now.
HeldItems ==
    CASE held.kind = "registry" -> repositories
      [] held.kind = "own" -> held.items
      [] OTHER -> <<>>

\* RepositoryManager.remove_repository.  Line 49 binds self.repositories to a
\* new list; the list object it was bound to keeps its items.
RemoveRepository(owner, name) ==
    /\ repositories' = Without(repositories, owner, name)
    /\ held' = IF held = TheRegistryList THEN OwnList(repositories) ELSE held
    /\ last' = [op |-> "REMOVE", owner |-> owner, name |-> name,
                before |-> repositories]
    /\ UNCHANGED <<now, db_repositories, db_messages, remote, next_sha,
                   message_cache, last_cache_update, filled, posted,
                   in_progress, cache_of, callers>>

\* remove_repository in a thread of its own, up to the assignment of line 49:
\* the comprehension of lines 49-52 has run over self.repositories.
RemoveBegin(owner, name) ==
    /\ removing = NoRemoval
    /\ removing' = [pc |-> "l49", owner |-> owner, name |-> name,
                    kept |-> Without(repositories, owner, name)]
    /\ UNCHANGED <<now, repositories, db_repositories, db_messages, remote, next_sha,
                   message_cache, last_cache_update, filled, posted, last, held,
                   in_progress, cache_of, savers, returned, git, environ>>

\* The assignment of line 49: self.repositories is bound to the list built.
RemoveEnd ==
    /\ removing # NoRemoval
    /\ repositories' = removing.kept
    /\ held' = IF held = TheRegistryList THEN OwnList(repositories) ELSE held
    /\ last' = [op |-> "REMOVE", owner |-> removing.owner, name |-> removing.name,
                before |-> repositories]
    /\ removing' = NoRemoval
    /\ UNCHANGED <<now, db_repositories, db_messages, remote, next_sha,
                   message_cache, last_cache_update, filled, posted,
                   in_progress, cache_of, savers, returned, git, environ>>

\* RepositoryManager.get_all_repositories: line 56 returns self.repositories,
\* the list object itself.
GetAllRepositories ==
    /\ held' = TheRegistryList
    /\ last' = [op |-> "LIST", ret |-> repositories]
    /\ UNCHANGED <<now, repositories, db_repositories, db_messages, remote, next_sha,
                   message_cache, last_cache_update, filled, posted,
                   in_progress, cache_of, callers>>

\* ---------------------------------------------------------------- the clock
Tick ==
    /\ now < MaxTime
    /\ now' = now + 1
    /\ last' = NoCall
    /\ UNCHANGED <<repositories, db_repositories, db_messages, remote, next_sha,
                   message_cache, last_cache_update, filled, posted, held,
                   in_progress, cache_of, callers>>

\* ------------------------------------------------------------ GET /messages
\* The lists the loop of _get_all_messages can collect before sorting: for
\* each registry entry with a store id, in registry order, one result of
\* get_messages(repository_id = id).
RECURSIVE CollectMessages(_)
CollectMessages(repos) ==
    IF repos = <<>> THEN {<<>>}
    ELSE LET repo == Head(repos)
             repo_id == get_repository_id(repo.owner, repo.name)
             heads == IF repo_id # None THEN get_messages(DefaultLimit, repo_id)
                      ELSE {<<>>}
         IN { h \o t : h \in heads, t \in CollectMessages(Tail(repos)) }

\* The store queries one refresh makes.
RECURSIVE StoreQueries(_)
StoreQueries(repos) ==
    IF repos = <<>> THEN 0
    ELSE (IF get_repository_id(Head(repos).owner, Head(repos).name) # None THEN 1 ELSE 0)
         + StoreQueries(Tail(repos))

\* CacheHit with the age compared by <= : a list aged exactly CACHE_DURATION
\* is still served.
CacheHitInclusive(current_time) ==
    (current_time - last_cache_update) <= CACHE_DURATION /\ message_cache # <<>>

\* The test of line 131: the cache is served.
CacheHit(current_time) ==
    (current_time - last_cache_update) < CACHE_DURATION /\ message_cache # <<>>

\* CacheUpdate stamping the cache with the start of the window that ends now.
CacheUpdateBackdated(messages, current_time) ==
    [message_cache |-> SortDesc(messages),
     last_cache_update |-> current_time - CACHE_DURATION]

\* Lines 142-147: sort what was collected, store it and stamp the cache.
CacheUpdate(messages, current_time) ==
    [message_cache |-> SortDesc(messages), last_cache_update |-> current_time]

\* _get_all_messages with a sliding window: a hit stamps the cache anew.
GetMessagesSliding ==
    LET current_time == now IN
    /\ IF CacheHit(current_time)
       THEN /\ last_cache_update' = current_time
            /\ UNCHANGED <<message_cache, filled, cache_of>>
            /\ last' = [op |-> "GET", hit |-> TRUE, queries |-> 0, expect |-> posted]
       ELSE \E messages \in CollectMessages(repositories) :
            /\ message_cache' = CacheUpdate(messages, current_time).message_cache
            /\ last_cache_update' = CacheUpdate(messages, current_time).last_cache_update
            /\ filled' = TRUE
            /\ cache_of' = current_time
            /\ last' = [op |-> "GET", hit |-> FALSE,
                        queries |-> StoreQueries(repositories), expect |-> posted]
    /\ posted' = {}
    /\ UNCHANGED <<now, repositories, db_repositories, db_messages, remote, next_sha,
                   held, in_progress, callers>>

\* ChatRequestHandler._get_all_messages, called by do_GET for /messages.
GetMessages ==
    LET current_time == now IN
    /\ IF CacheHit(current_time)
       THEN /\ UNCHANGED <<message_cache, last_cache_update, filled, cache_of>>
            /\ last' = [op |-> "GET", hit |-> TRUE, queries |-> 0, expect |-> posted]
       ELSE \E messages \in CollectMessages(repositories) :
            /\ message_cache' = CacheUpdate(messages, current_time).message_cache
            /\ last_cache_update' = CacheUpdate(messages, current_time).last_cache_update
            /\ filled' = TRUE
            /\ cache_of' = current_time
            /\ last' = [op |-> "GET", hit |-> FALSE,
                        queries |-> StoreQueries(repositories), expect |-> posted]
    /\ posted' = {}
    /\ UNCHANGED <<now, repositories, db_repositories, db_messages, remote, next_sha,
                   held, in_progress, callers>>

\* A refresh that stamps the cache before it queries the store.
GetMessagesStoreErrorStamped ==
    LET current_time == now IN
    /\ ~CacheHit(current_time)
    /\ repositories # <<>>
    /\ last_cache_update' = current_time
    /\ last' = [op |-> "GET_ERROR", http |-> 200, body |-> "",
                cache_before |-> [message_cache |-> message_cache,
                                  last_cache_update |-> last_cache_update]]
    /\ UNCHANGED <<now, repositories, db_repositories, db_messages, remote, next_sha,
                   message_cache, filled, posted, held,
                   in_progress, cache_of, callers>>

\* do_GET for /messages when a store call of the refresh (lines 137-140)
\* raises.  Lines 32-34 have sent status 200 and the headers; nothing in do_GET
\* or _get_all_messages catches the exception, so line 38 never writes the
\* body and lines 146-147 never run.
GetMessagesStoreError ==
    LET current_time == now IN
    /\ ~CacheHit(current_time)
    /\ repositories # <<>>
    /\ last' = [op |-> "GET_ERROR", http |-> 200, body |-> "",
                cache_before |-> [message_cache |-> message_cache,
                                  last_cache_update |-> last_cache_update]]
    /\ UNCHANGED <<now, repositories, db_repositories, db_messages, remote, next_sha,
                   message_cache, last_cache_update, filled, posted, held,
                   in_progress, cache_of, callers>>

\* ------------------------------------- GET /messages, one statement at a time
\* serve_forever with the ThreadingMixIn: every request gets its own thread.
OneAtATimeThreading(h) == TRUE

\* socketserver.TCPServer (line 153): serve_forever takes one request from the
\* listen queue and runs its handler to the end before it takes the next.
OneAtATime(h) == \A g \in Handlers \ {h} : handlers[g].pc \in {"idle", "queued"}

\* A client sends GET /messages on connection h; the request waits in the
\* listen queue.
Request(h) ==
    /\ handlers[h] = Idle
    /\ handlers' = [handlers EXCEPT ![h] = [pc |-> "queued"]]
    /\ UNCHANGED <<now, repositories, db_repositories, db_messages, remote, next_sha,
                   message_cache, last_cache_update, filled, posted, last, held,
                   unresponsive, cycle, cache_of, callers>>

\* The server starts the handler: do_GET runs to line 130, which reads the
\* clock.
Begin(h) ==
    /\ handlers[h].pc = "queued"
    /\ OneAtATime(h)
    /\ handlers' = [handlers EXCEPT ![h] = [pc |-> "l131", current_time |-> now]]
    /\ UNCHANGED <<now, repositories, db_repositories, db_messages, remote, next_sha,
                   message_cache, last_cache_update, filled, posted, last, held,
                   unresponsive, cycle, cache_of, callers>>

\* Lines 131-132: the cache is read; a hit is returned.
Test(h) ==
    /\ handlers[h].pc = "l131"
    /\ handlers' = [handlers EXCEPT ![h] =
                        IF CacheHit(handlers[h].current_time) THEN Idle
                        ELSE [pc |-> "l135", current_time |-> @.current_time]]
    /\ UNCHANGED <<now, repositories, db_repositories, db_messages, remote, next_sha,
                   message_cache, last_cache_update, filled, posted, last, held,
                   unresponsive, cycle, cache_of, callers>>

\* Lines 135-140: the store is queried for every registry entry.
Collect(h) ==
    /\ handlers[h].pc = "l135"
    /\ \E messages \in CollectMessages(repositories) :
          handlers' = [handlers EXCEPT ![h] = [pc |-> "l146",
                                               current_time |-> @.current_time,
                                               messages |-> messages]]
    /\ UNCHANGED <<now, repositories, db_repositories, db_messages, remote, next_sha,
                   message_cache, last_cache_update, filled, posted, last, held,
                   unresponsive, cycle, cache_of, callers>>

\* Lines 143-146: the list is sorted and bound to message_cache.
StorePayload(h) ==
    /\ handlers[h].pc = "l146"
    /\ message_cache' =
           CacheUpdate(handlers[h].messages, handlers[h].current_time).message_cache
    /\ cache_of' = handlers[h].current_time
    /\ filled' = TRUE
    /\ handlers' = [handlers EXCEPT ![h] = [pc |-> "l147",
                                           current_time |-> @.current_time,
                                           messages |-> @.messages]]
    /\ UNCHANGED <<now, repositories, db_repositories, db_messages, remote, next_sha,
                   last_cache_update, posted, last, held, unresponsive, cycle,
                   callers>>

\* Lines 147-149 and line 38: the cache is stamped and the list is sent.
StoreStamp(h) ==
    /\ handlers[h].pc = "l147"
    /\ last_cache_update' =
           CacheUpdate(handlers[h].messages, handlers[h].current_time).last_cache_update
    /\ handlers' = [handlers EXCEPT ![h] = Idle]
    /\ UNCHANGED <<now, repositories, db_repositories, db_messages, remote, next_sha,
                   message_cache, filled, posted, last, held, unresponsive, cycle,
                   cache_of, callers>>

\* --------------------------------------------------------------- POST /chat
\* PostOne undoing the local INSERT when the GitHub calls raise.
PostOneRollback(repo, out, message, st) ==
    LET found == RepositoryIdIn(st.tbl, repo.owner, repo.name)
        tbl1 == IF found = None THEN db_add_repository(st.tbl, repo.owner, repo.name)
                ELSE st.tbl
        repo_id == RepositoryIdIn(tbl1, repo.owner, repo.name)
        rows1 == save_message(st.rows, message, repo_id, None, None, None)
        commit == [sha |-> st.sha, date |-> now, message |-> message,
                   author |-> GitHubUser]
        rows2 == save_message(rows1, message, repo_id, commit.sha, commit.sha,
                              commit.author)
        failed(e) == Append(st.responses, [repository |-> full_name(repo),
                                           status |-> "error", error |-> e])
    IN  CASE out = "store_err" ->
               [st EXCEPT !.responses = failed("store")]
          [] out = "remote_err" ->
               [st EXCEPT !.tbl = tbl1,
                          !.responses = failed("remote")]
          [] OTHER ->
               [st EXCEPT !.tbl = tbl1, !.rows = rows2,
                          !.remote = [@ EXCEPT ![full_name(repo)] = <<commit>> \o @],
                          !.sha = @ + 1,
                          !.responses = Append(@, [repository |-> full_name(repo),
                                                   status |-> "success",
                                                   github_url |-> commit.sha]),
                          !.written = @ \cup {Len(rows1), Len(rows2)}]

\* One iteration of the loop of do_POST (lines 57-103) for registry entry
\* repo, ending as `out` says.  st carries the store, the remotes and the
\* response list through the loop.
PostOne(repo, out, message, st) ==
    LET found == RepositoryIdIn(st.tbl, repo.owner, repo.name)
        tbl1 == IF found = None THEN db_add_repository(st.tbl, repo.owner, repo.name)
                ELSE st.tbl
        repo_id == RepositoryIdIn(tbl1, repo.owner, repo.name)
        rows1 == save_message(st.rows, message, repo_id, None, None, None)
        commit == [sha |-> st.sha, date |-> now, message |-> message,
                   author |-> GitHubUser]
        rows2 == save_message(rows1, message, repo_id, commit.sha, commit.sha,
                              commit.author)
        failed(e) == Append(st.responses, [repository |-> full_name(repo),
                                           status |-> "error", error |-> e])
    IN  CASE out = "store_err" ->
               [st EXCEPT !.responses = failed("store")]
          [] out = "remote_err" ->
               [st EXCEPT !.tbl = tbl1, !.rows = rows1,
                          !.responses = failed("remote"),
                          !.written = @ \cup {Len(rows1)}]
          [] OTHER ->
               [st EXCEPT !.tbl = tbl1, !.rows = rows2,
                          !.remote = [@ EXCEPT ![full_name(repo)] = <<commit>> \o @],
                          !.sha = @ + 1,
                          !.responses = Append(@, [repository |-> full_name(repo),
                                                   status |-> "success",
                                                   github_url |-> commit.sha]),
                          !.written = @ \cup {Len(rows1), Len(rows2)}]

RECURSIVE PostLoop(_, _, _, _)
PostLoop(repos, outs, message, st) ==
    IF repos = <<>> THEN st
    ELSE PostLoop(Tail(repos), Tail(outs), message,
                  PostOne(Head(repos), Head(outs), message, st))

\* do_POST without the test of lines 52-53: an empty message runs the loop.
PostChatAcceptingEmpty(message, outs) ==
    LET st == PostLoop(repositories, outs, message,
                       [tbl |-> db_repositories, rows |-> db_messages,
                        remote |-> remote, sha |-> next_sha,
                        responses |-> <<>>, written |-> {}])
    IN /\ Len(st.rows) <= MaxRows
       /\ \A id \in DOMAIN st.remote : Len(st.remote[id]) <= MaxCommits
       /\ db_repositories' = st.tbl
       /\ db_messages' = st.rows
       /\ remote' = st.remote
       /\ next_sha' = st.sha
       /\ posted' = posted \cup st.written
       /\ last' = [op |-> "POST", http |-> 200, status |-> "success",
                   responses |-> st.responses, written |-> st.written,
                   outs |-> outs, message |-> message,
                   saved |-> [k \in 1..(Len(st.rows) - Len(db_messages)) |-> message]]
       /\ UNCHANGED <<now, repositories, message_cache, last_cache_update, filled,
                      held, in_progress, cache_of, callers>>

\* ChatRequestHandler.do_POST for /chat with body {message: message}.
PostChat(message, outs) ==
    IF message = ""
    THEN /\ last' = [op |-> "POST", http |-> 500, status |-> "error",
                     responses |-> <<>>, written |-> {}, outs |-> <<>>,
                     message |-> message, saved |-> <<>>]
         /\ UNCHANGED <<now, repositories, db_repositories, db_messages, remote,
                        next_sha, message_cache, last_cache_update, filled, posted, held,
                        in_progress, cache_of, callers>>
    ELSE LET st == PostLoop(repositories, outs, message,
                            [tbl |-> db_repositories, rows |-> db_messages,
                             remote |-> remote, sha |-> next_sha,
                             responses |-> <<>>, written |-> {}])
         IN /\ Len(st.rows) <= MaxRows
            /\ \A id \in DOMAIN st.remote : Len(st.remote[id]) <= MaxCommits
            /\ db_repositories' = st.tbl
            /\ db_messages' = st.rows
            /\ remote' = st.remote
            /\ next_sha' = st.sha
            /\ posted' = posted \cup st.written
            /\ last' = [op |-> "POST", http |-> 200, status |-> "success",
                        responses |-> st.responses, written |-> st.written,
                        outs |-> outs, message |-> message,
                        saved |-> [k \in 1..(Len(st.rows) - Len(db_messages)) |-> message]]
            /\ UNCHANGED <<now, repositories, message_cache, last_cache_update, filled,
                           held, in_progress, cache_of, callers>>

\* ------------------------------------------------- fetch_messages_from_all
\* The dict built for a commit at lines 78-85.
CommitMessage(repo, commit) ==
    [repository |-> full_name(repo), message |-> commit.message,
     timestamp |-> IsoFormat(commit.date), author |-> commit.author,
     github_url |-> commit.sha, sha |-> commit.sha]

\* The dicts of all the commits a remote holds, in the order it lists them.
CommitMessages(repo) ==
    [i \in DOMAIN remote[full_name(repo)] |->
        CommitMessage(repo, remote[full_name(repo)][i])]

\* ------------------------------------------ GitHubCommitFetcher.get_commits
\* The CommitInfo built for a commit at lines 74-82.
CommitInfo(commit) ==
    [sha |-> commit.sha, message |-> commit.message, author_name |-> commit.author,
     timestamp |-> commit.date, url |-> commit.sha]

\* What repo.get_commits(since=, until=) lists of a remote's commits: those
\* dated from since on and up to until, None meaning no bound.
Matching(listing, since, until) ==
    SelectSeq(listing, LAMBDA c : /\ (since # None => c.date >= since)
                                  /\ (until # None => c.date <= until))

\* get_commits returning what it had converted when a call raised.
get_commitsPartial(listing, since, until, max_count, fail_at) ==
    LET slice == Take(Matching(listing, since, until), max_count)
    IN  IF fail_at # None /\ (fail_at = 0 \/ fail_at < Len(slice))
        THEN [raised |-> FALSE, error |-> "",
              result |-> [i \in 1..fail_at |-> CommitInfo(slice[i])]]
        ELSE [raised |-> FALSE, error |-> "",
              result |-> [i \in DOMAIN slice |-> CommitInfo(slice[i])]]

\* get_commits treating an empty listing as an error.
get_commitsRaisingOnEmpty(listing, since, until, max_count, fail_at) ==
    LET slice == Take(Matching(listing, since, until), max_count)
    IN  IF slice = <<>> \/ (fail_at # None /\ (fail_at = 0 \/ fail_at < Len(slice)))
        THEN [raised |-> TRUE, error |-> "Error fetching commits", result |-> <<>>]
        ELSE [raised |-> FALSE, error |-> "",
              result |-> [i \in DOMAIN slice |-> CommitInfo(slice[i])]]

\* get_commits(since, until, max_count) on a remote that holds listing.
\* fail_at = None: every GitHub call answers; fail_at = 0: get_repo or the
\* listing raises; fail_at = j > 0: reading the commit after the j-th raises.
\* The except clause of line 87 raises anew with its own message.
get_commits(listing, since, until, max_count, fail_at) ==
    LET slice == Take(Matching(listing, since, until), max_count)
    IN  IF fail_at # None /\ (fail_at = 0 \/ fail_at < Len(slice))
        THEN [raised |-> TRUE, error |-> "Error fetching commits", result |-> <<>>]
        ELSE [raised |-> FALSE, error |-> "",
              result |-> [i \in DOMAIN slice |-> CommitInfo(slice[i])]]

\* A caller runs get_commits on the fetcher of owner/name.
GetCommits(owner, name, since, until, max_count, fail_at) ==
    /\ last' = [op |-> "COMMITS", repo |-> <<owner, name>>, since |-> since,
                until |-> until, max_count |-> max_count, fail_at |-> fail_at,
                out |-> get_commits(remote[<<owner, name>>], since, until,
                                    max_count, fail_at)]
    /\ UNCHANGED <<now, repositories, db_repositories, db_messages, remote, next_sha,
                   message_cache, last_cache_update, filled, posted, held,
                   in_progress, cache_of, callers>>

\* FetchOne stamping last_sync in a finally clause, failed or not.
FetchOneStampsFailed(i, fail_at, st) ==
    LET repo == st.repositories[i]
        msgs == CommitMessages(repo)
    IN  IF fail_at = None
        THEN [st EXCEPT !.all_messages = @ \o msgs,
                        !.repositories[i].last_sync = now,
                        !.attempted = @ + 1]
        ELSE [st EXCEPT !.all_messages = @ \o Take(msgs, fail_at),
                        !.repositories[i].last_sync = now,
                        !.printed = Append(@, full_name(repo)),
                        !.attempted = @ + 1]

\* FetchOne taking the token from an entry whose fetch failed.
FetchOneDropsToken(i, fail_at, st) ==
    LET repo == st.repositories[i]
        msgs == CommitMessages(repo)
    IN  IF fail_at = None
        THEN [st EXCEPT !.all_messages = @ \o msgs,
                        !.repositories[i].last_sync = now,
                        !.attempted = @ + 1]
        ELSE [st EXCEPT !.all_messages = @ \o Take(msgs, fail_at),
                        !.repositories[i].token = "",
                        !.printed = Append(@, full_name(repo)),
                        !.attempted = @ + 1]

\* FetchOne without the except clause: the exception leaves the iteration.
FetchOneUncaught(i, fail_at, st) ==
    LET repo == st.repositories[i]
        msgs == CommitMessages(repo)
    IN  IF fail_at = None
        THEN [st EXCEPT !.all_messages = @ \o msgs,
                        !.repositories[i].last_sync = now,
                        !.attempted = @ + 1]
        ELSE [st EXCEPT !.all_messages = @ \o Take(msgs, fail_at),
                        !.attempted = @ + 1,
                        !.raised = TRUE]

\* One iteration of the loop of fetch_messages_from_all (lines 69-93) for the
\* registry entry at position i.  fail_at = None: every GitHub call succeeds;
\* fail_at = j: a GitHub call raises once j commits have been read (j = 0:
\* before the first commit; j > 0: while the next commit is being read).  The
\* except clause of line 91 catches it; st.raised stays FALSE.
FetchOne(i, fail_at, st) ==
    LET repo == st.repositories[i]
        msgs == CommitMessages(repo)
    IN  IF fail_at = None
        THEN [st EXCEPT !.all_messages = @ \o msgs,
                        !.repositories[i].last_sync = now,
                        !.attempted = @ + 1]
        ELSE [st EXCEPT !.all_messages = @ \o Take(msgs, fail_at),
                        !.printed = Append(@, full_name(repo)),
                        !.attempted = @ + 1]

\* The for loop of line 69: an exception that leaves an iteration ends it.
RECURSIVE FetchLoop(_, _, _)
FetchLoop(i, fails, st) ==
    IF i > Len(st.repositories) \/ st.raised THEN st
    ELSE FetchLoop(i + 1, fails, FetchOne(i, fails[i], st))

\* The GitHub calls made for this registry entry (lines 71-86) come back, with
\* a result or with an exception.  The code passes no timeout to them and runs
\* them in the calling thread, so a call that does not come back is waited for.
Responds(repo) == full_name(repo) \notin unresponsive

\* RepositoryManager.fetch_messages_from_all, run to completion.
FetchMessagesFromAll(fails) ==
    LET st == FetchLoop(1, fails, [repositories |-> repositories,
                                   all_messages |-> <<>>, printed |-> <<>>,
                                   attempted |-> 0, raised |-> FALSE])
    IN /\ cycle = NoCycle
       /\ \A i \in DOMAIN repositories : Responds(repositories[i])
       /\ \A i \in DOMAIN repositories :
             fails[i] # None =>
                 fails[i] = 0 \/ fails[i] < Len(remote[full_name(repositories[i])])
       /\ repositories' = st.repositories
       /\ last' = [op |-> "FETCH", raised |-> st.raised,
                   ret |-> IF st.raised THEN <<>> ELSE SortDesc(st.all_messages),
                   printed |-> st.printed, attempted |-> st.attempted,
                   fails |-> fails]
       /\ UNCHANGED <<now, db_repositories, db_messages, remote, next_sha,
                      message_cache, last_cache_update, filled, posted, held,
                      in_progress, cache_of, callers>>

\* ----------------------------- fetch_messages_from_all, one source at a time
\* Line 67: the call starts with an empty list.
FetchBegin ==
    /\ cycle = NoCycle
    /\ cycle' = [pc |-> "running", i |-> 1, all_messages |-> <<>>,
                 printed |-> <<>>, fails |-> <<>>]
    /\ last' = NoCall
    /\ UNCHANGED <<now, repositories, db_repositories, db_messages, remote, next_sha,
                   message_cache, last_cache_update, filled, posted, held,
                   unresponsive, handlers, cache_of, callers>>

\* Lines 69-93 for the entry the loop has reached, once its calls came back.
FetchSource(fail_at) ==
    /\ cycle.pc = "running"
    /\ cycle.i <= Len(repositories)
    /\ Responds(repositories[cycle.i])
    /\ fail_at # None =>
           fail_at = 0 \/ fail_at < Len(remote[full_name(repositories[cycle.i])])
    /\ LET st == FetchOne(cycle.i, fail_at,
                          [repositories |-> repositories,
                           all_messages |-> cycle.all_messages,
                           printed |-> cycle.printed,
                           attempted |-> cycle.i - 1, raised |-> FALSE])
       IN /\ repositories' = st.repositories
          /\ cycle' = [pc |-> "running", i |-> cycle.i + 1,
                       all_messages |-> st.all_messages, printed |-> st.printed,
                       fails |-> Append(cycle.fails, fail_at)]
    /\ last' = NoCall
    /\ UNCHANGED <<now, db_repositories, db_messages, remote, next_sha,
                   message_cache, last_cache_update, filled, posted, held,
                   unresponsive, handlers, cache_of, callers>>

\* Lines 95-97: the loop is over; sort and return.
FetchEnd ==
    /\ cycle.pc = "running"
    /\ cycle.i > Len(repositories)
    /\ cycle' = NoCycle
    /\ last' = [op |-> "FETCH", raised |-> FALSE, ret |-> SortDesc(cycle.all_messages),
                printed |-> cycle.printed, attempted |-> cycle.i - 1,
                fails |-> cycle.fails]
    /\ UNCHANGED <<now, repositories, db_repositories, db_messages, remote, next_sha,
                   message_cache, last_cache_update, filled, posted, held,
                   unresponsive, handlers, cache_of, callers>>

\* The next step of the call in progress.
FetchStep ==
    \/ \E fail_at \in {None} \cup 0..MaxHistory : FetchSource(fail_at)
    \/ FetchEnd

\* The list the last GET /messages returned (line 132 or line 149).
Returned == message_cache

Init ==
    /\ now = 0
    /\ repositories = <<>>
    /\ db_repositories = <<>>
    /\ db_messages = <<>>
    /\ remote = [o \in Owners \X Names |-> <<>>]
    /\ next_sha = 1
    /\ message_cache = <<>>
    /\ last_cache_update = 0
    /\ filled = FALSE
    /\ posted = {}
    /\ last = NoCall
    /\ held = NoList
    /\ unresponsive = {}
    /\ cycle = NoCycle
    /\ handlers = [h \in Handlers |-> Idle]
    /\ cache_of = 0
    /\ removing = NoRemoval
    /\ savers = [t \in Savers |-> NotSaving]
    /\ returned = <<>>
    /\ git = NoPush
    /\ environ = NoEnviron

Next ==
    \/ Tick
    \/ \E o \in Owners, n \in Names, t \in Tokens : AddRepository(o, n, t)
    \/ \E o \in Owners, n \in Names : RemoveRepository(o, n)
    \/ GetMessages
    \/ GetMessagesStoreError
    \/ \E m \in Texts, outs \in [1..Len(repositories) -> PostOutcomes] : PostChat(m, outs)

Spec == Init /\ [][Next]_vars
\* ------------------------------------- the process started on existing data
\* What a remote repository can hold when the process starts: commits made
\* elsewhere, with any author dates, listed in the order the remote lists them.
Histories(id) ==
    UNION { { [i \in 1..n |-> [sha |-> 10 * (IF id[2] = "a" THEN 1 ELSE 2) + i,
                               date |-> d[i], message |-> "hi",
                               author |-> GitHubUser]] :
              d \in [1..n -> 0..MaxDate] } : n \in 0..MaxHistory }

\* A row an earlier run of the process stored at time t without publishing it.
StoredRow(id, repository_id, t) ==
    [id |-> id, repository_id |-> repository_id, message |-> "hi",
     timestamp |-> CurrentTimestamp(t), github_url |-> None,
     commit_sha |-> None, author |-> None]

\* What chat.db can hold when the process starts: nothing; one message of
\* o/a; an older message of o/a and a newer one of o/b.
Stores ==
    { [tbl |-> <<>>, rows |-> <<>>],
      [tbl |-> <<[id |-> 1, owner |-> "o", name |-> "a"]>>,
       rows |-> <<StoredRow(1, 1, 0)>>],
      [tbl |-> <<[id |-> 1, owner |-> "o", name |-> "a"],
                 [id |-> 2, owner |-> "o", name |-> "b"]>>,
       rows |-> <<StoredRow(1, 1, 0), StoredRow(2, 2, 1)>>] }

InitFetch ==
    /\ now = MaxDate + 1
    /\ repositories = <<>>
    /\ \E store \in Stores : db_repositories = store.tbl /\ db_messages = store.rows
    /\ remote \in [Owners \X Names -> UNION { Histories(id) : id \in Owners \X Names }]
    /\ \A id \in Owners \X Names : remote[id] \in Histories(id)
    /\ next_sha = 1
    /\ message_cache = <<>>
    /\ last_cache_update = 0
    /\ filled = FALSE
    /\ posted = {}
    /\ last = NoCall
    /\ held = NoList
    /\ unresponsive = {}
    /\ cycle = NoCycle
    /\ handlers = [h \in Handlers |-> Idle]
    /\ cache_of = 0
    /\ removing = NoRemoval
    /\ savers = [t \in Savers |-> NotSaving]
    /\ returned = <<>>
    /\ git = NoPush
    /\ environ = NoEnviron

NextFetch ==
    \/ \E o \in Owners, n \in Names, t \in Tokens : AddRepository(o, n, t)
    \/ \E o \in Owners, n \in Names : RemoveRepository(o, n)
    \/ \E fails \in [1..Len(repositories) -> {None} \cup 0..MaxHistory] :
          FetchMessagesFromAll(fails)
    \/ GetMessages

SpecFetch == InitFetch /\ [][NextFetch]_vars

\* ------------------------------------------- the fetch among remotes that hang
InitCycle ==
    /\ now = MaxDate + 1
    /\ repositories = <<>>
    /\ db_repositories = <<>>
    /\ db_messages = <<>>
    /\ remote \in [Owners \X Names -> UNION { Histories(id) : id \in Owners \X Names }]
    /\ \A id \in Owners \X Names : remote[id] \in Histories(id)
    /\ next_sha = 1
    /\ message_cache = <<>>
    /\ last_cache_update = 0
    /\ filled = FALSE
    /\ posted = {}
    /\ last = NoCall
    /\ held = NoList
    /\ unresponsive \in SUBSET (Owners \X Names)
    /\ cycle = NoCycle
    /\ handlers = [h \in Handlers |-> Idle]
    /\ cache_of = 0
    /\ removing = NoRemoval
    /\ savers = [t \in Savers |-> NotSaving]
    /\ returned = <<>>
    /\ git = NoPush
    /\ environ = NoEnviron

\* fetch_messages_from_all is a coroutine that never awaits: nothing else runs
\* in its thread between its first line and its return.
NextCycle ==
    \/ cycle = NoCycle /\ \E o \in Owners, n \in Names, t \in Tokens : AddRepository(o, n, t)
    \/ cycle = NoCycle /\ \E o \in Owners, n \in Names : RemoveRepository(o, n)
    \/ FetchBegin
    \/ FetchStep

SpecCycle == InitCycle /\ [][NextCycle]_vars

\* ------------------------------------------- the server under several clients
\* The server started with one source in its environment and one stored
\* message of it.
InitHandlers ==
    /\ now = 0
    /\ repositories = <<Repository("o", "a", "t")>>
    /\ db_repositories = <<[id |-> 1, owner |-> "o", name |-> "a"]>>
    /\ db_messages = <<StoredRow(1, 1, 0)>>
    /\ remote = [o \in Owners \X Names |-> <<>>]
    /\ next_sha = 1
    /\ message_cache = <<>>
    /\ last_cache_update = 0
    /\ filled = FALSE
    /\ posted = {}
    /\ last = NoCall
    /\ held = NoList
    /\ unresponsive = {}
    /\ cycle = NoCycle
    /\ handlers = [h \in Handlers |-> Idle]
    /\ cache_of = 0
    /\ removing = NoRemoval
    /\ savers = [t \in Savers |-> NotSaving]
    /\ returned = <<>>
    /\ git = NoPush
    /\ environ = NoEnviron

NextHandlers ==
    \/ Tick
    \/ \E h \in Handlers : Request(h)
    \/ \E h \in Handlers : Begin(h)
    \/ \E h \in Handlers : Test(h)
    \/ \E h \in Handlers : Collect(h)
    \/ \E h \in Handlers : StorePayload(h)
    \/ \E h \in Handlers : StoreStamp(h)

SpecHandlers == InitHandlers /\ [][NextHandlers]_vars

\* ------------------------------------------- the registry built at start
InitEnv ==
    /\ now = 0
    /\ repositories = <<>>
    /\ db_repositories = <<>>
    /\ db_messages = <<>>
    /\ remote = [o \in Owners \X Names |-> <<>>]
    /\ next_sha = 1
    /\ message_cache = <<>>
    /\ last_cache_update = 0
    /\ filled = FALSE
    /\ posted = {}
    /\ last = NoCall
    /\ held = NoList
    /\ unresponsive = {}
    /\ cycle = NoCycle
    /\ handlers = [h \in Handlers |-> Idle]
    /\ cache_of = 0
    /\ removing = NoRemoval
    /\ savers = [t \in Savers |-> NotSaving]
    /\ returned = <<>>
    /\ git = NoPush
    /\ \E n \in 0..MaxEnv : \E values \in [1..n -> Strings(MaxValueLen)] :
          environ = [values |-> values, loaded |-> FALSE]

NextEnv == LoadRepositoriesFromEnv

SpecEnv == InitEnv /\ [][NextEnv]_vars

\* ----------------------------------------------------- push_file on its own
NextPush ==
    \/ \E f \in Files : PushFile(f)
    \/ \E ok \in BOOLEAN : GitAdd(ok)
    \/ \E ok \in BOOLEAN : GitCommit(ok)
    \/ \E ok \in BOOLEAN : GitPush(ok)

SpecPush == Init /\ [][NextPush]_vars

\* ------------------------------------------- the commit fetcher on its own
NextCommits ==
    \E o \in Owners, n \in Names, since \in {None} \cup 0..MaxDate,
       until \in {None} \cup 0..MaxDate, max_count \in 0..MaxHistory,
       fail_at \in {None} \cup 0..MaxHistory :
        GetCommits(o, n, since, until, max_count, fail_at)

SpecCommits == InitFetch /\ [][NextCommits]_vars

\* --------------------------------------- the store under several threads
\* The messages and the repository ids the callers of save_message pass.
\* The rows chat.db starts with are the rows of earlier calls, which
\* returned their ids.
StoreTexts == {"hi", "yo"}
StoreIds == {1, 2}

InitStore ==
    /\ now \in {0, 1}
    /\ repositories = <<>>
    /\ \E store \in Stores : db_repositories = store.tbl /\ db_messages = store.rows
    /\ remote = [o \in Owners \X Names |-> <<>>]
    /\ next_sha = 1
    /\ message_cache = <<>>
    /\ last_cache_update = 0
    /\ filled = FALSE
    /\ posted = {}
    /\ last = NoCall
    /\ held = NoList
    /\ unresponsive = {}
    /\ cycle = NoCycle
    /\ handlers = [h \in Handlers |-> Idle]
    /\ cache_of = 0
    /\ removing = NoRemoval
    /\ savers = [t \in Savers |-> NotSaving]
    /\ returned = [k \in DOMAIN db_messages |->
                      [id |-> db_messages[k].id, message |-> db_messages[k].message]]
    /\ git = NoPush
    /\ environ = NoEnviron

NextStore ==
    \/ \E o \in Owners, n \in Names : DbAddRepository(o, n)
    \/ \E t \in Savers, m \in StoreTexts, id \in StoreIds : SaveBegin(t, m, id)
    \/ \E t \in Savers : SaveWrite(t)
    \/ \E t \in Savers : SaveFail(t)
    \/ \E t \in Savers : SaveReturn(t)
    \/ \E id \in 1..MaxRows : DeleteMessage(id)

SpecStore == InitStore /\ [][NextStore]_vars

\* ------------------------------------ the registry, called from two threads
\* One thread calls add_repository while another is in remove_repository.
\* list.append is one step; remove_repository reads the list, then assigns.
NextThreads ==
    \/ \E o \in Owners, n \in Names, t \in RegistryTokens : AddRepository(o, n, t)
    \/ \E o \in Owners, n \in Names : RemoveBegin(o, n)
    \/ RemoveEnd

SpecThreads == Init /\ [][NextThreads]_vars

\* ------------------------------------------ the registry, called on its own
NextRegistry ==
    \/ \E o \in Owners, n \in Names, t \in RegistryTokens : AddRepository(o, n, t)
    \/ \E o \in Owners, n \in Names : RemoveRepository(o, n)
    \/ GetAllRepositories

SpecRegistry == Init /\ [][NextRegistry]_vars

\* ================================================================ properties
\* The instant a text timestamp denotes.
TimeOf(ts) == 10 * ts[1] + ts[2]

SortedByTimeDesc(list) ==
    \A i \in 1..(Len(list) - 1) : TimeOf(list[i].timestamp) >= TimeOf(list[i + 1].timestamp)

\* The store row with this id belongs to a source that is still registered.
RowRegistered(id) ==
    \E i \in DOMAIN repositories :
        get_repository_id(repositories[i].owner, repositories[i].name)
            = db_messages[id].repository_id

\* C1: after a POST /chat that returned success, the next GET /messages
\* returns a list containing the rows that POST wrote (for the sources still
\* registered), also inside the cache window and with a filled cache.
C1_ReadAfterWrite ==
    last.op = "GET" =>
        \A id \in last.expect :
            RowRegistered(id) => \E i \in DOMAIN Returned : Returned[i].id = id

\* C2: whenever GET /messages serves the cached list without querying the
\* store, the cache is younger than CACHE_DURATION.
C2_BoundedStaleness ==
    (last.op = "GET" /\ last.hit) => now - last_cache_update < CACHE_DURATION

\* C2 witness: a cached list served in the last minute of its window.
C2_Witness ==
    /\ last.op = "GET" /\ last.hit
    /\ now - last_cache_update = CACHE_DURATION - 1

\* C3: once the cache was filled with a payload (any list, the empty one
\* included), a read before the TTL elapses returns that payload without
\* recomputing it, and a read at or after the TTL does not serve the cache.
C3_GetAfterPut ==
    [][(last'.op = "GET" /\ filled) =>
          IF now - last_cache_update < CACHE_DURATION
          THEN last'.hit /\ message_cache' = message_cache
          ELSE ~last'.hit]_vars

\* C4: the cache timestamp never decreases.
C4_TimestampMonotonic == [][last_cache_update' >= last_cache_update]_vars

\* C4 witness: a refresh has moved the cache timestamp forward.
C4_Witness == last.op = "GET" /\ ~last.hit /\ last_cache_update > 0 /\ message_cache # <<>>

Reverse(s) == [i \in 1..Len(s) |-> s[Len(s) + 1 - i]]

\* The source of each entry of a list, in the list's order.
Sources(list) == [i \in DOMAIN list |-> list[i].repository]

\* C6: the order GET /messages gives to messages of equal timestamp is fixed
\* by their source identity (then id), not by the registry's order: with the
\* registry in the opposite order the sources appear in the same order.
C6_TieBreak ==
    (last.op = "GET" /\ ~last.hit) =>
        \A messages \in CollectMessages(Reverse(repositories)) :
            Sources(SortDesc(messages)) = Sources(Returned)

\* (source identity, commit_sha-or-id) of a served message.
Identity(m) ==
    <<m.repository, IF m.commit_sha # None THEN <<"sha", m.commit_sha>>
                    ELSE <<"id", m.id>>>>

\* C7: no two entries of the list returned for GET /messages share the same
\* (source identity, commit_sha-or-id).
C7_NoDuplicates ==
    last.op = "GET" =>
        \A i, j \in DOMAIN Returned :
            i # j => Identity(Returned[i]) # Identity(Returned[j])

\* An entry of a returned list that was built from a remote commit.
IsRemoteMessage(x) == "sha" \in DOMAIN x

\* The registry positions whose fetch succeeded in the last aggregation cycle.
Succeeded == { i \in DOMAIN repositories : last.fails[i] = None }

\* C8: with k of the N sources failing, the remote messages that
\* fetch_messages_from_all returns are exactly those of the N-k successful
\* sources, and it reports exactly k failures, one per failed source.
C8_UnionAndDiagnostics ==
    last.op = "FETCH" =>
        /\ { x \in Range(last.ret) : IsRemoteMessage(x) }
             = UNION { Range(CommitMessages(repositories[i])) : i \in Succeeded }
        /\ Len(last.printed) = Len(repositories) - Cardinality(Succeeded)
        /\ \A i \in DOMAIN repositories \ Succeeded :
               \E j \in DOMAIN last.printed :
                   last.printed[j] = full_name(repositories[i])

\* C9: a failing source never aborts the cycle: fetch_messages_from_all does
\* not raise, attempts every source of the registry, and returns every
\* message of every source that succeeded.
C9_FailureIsolation ==
    last.op = "FETCH" =>
        /\ ~last.raised
        /\ last.attempted = Len(repositories)
        /\ \A i \in Succeeded :
               Range(CommitMessages(repositories[i])) \subseteq Range(last.ret)

\* C9 witness: the first source failed, the second succeeded and its commits
\* were returned.
C9_Witness ==
    /\ last.op = "FETCH"
    /\ Len(repositories) = 2
    /\ last.fails[1] # None /\ last.fails[2] = None
    /\ remote[full_name(repositories[2])] # <<>>

\* C10: the list served for a read contains every message of every remote
\* source that was fetched successfully.
C10_ServedIncludesRemote ==
    last.op = "GET" =>
        \A i \in DOMAIN repositories :
            repositories[i].last_sync # None =>
                \A c \in Range(remote[full_name(repositories[i])]) :
                    \E j \in DOMAIN Returned :
                        /\ Returned[j].repository = full_name(repositories[i])
                        /\ Returned[j].commit_sha = c.sha

\* C11: after any sequence of add_repository and remove_repository calls the
\* registry holds at most one entry for each (owner, name); an add_repository
\* for an identity already present does not create a second entry.
C11_UniqueIdentity ==
    \A i, j \in DOMAIN repositories :
        full_name(repositories[i]) = full_name(repositories[j]) => i = j

\* The registry entry r has the identity the last remove_repository named.
Named(r) == r.owner = last.owner /\ r.name = last.name

\* C12: remove_repository for an identity the registry does not hold leaves
\* the registry as it was, contents and order; for an identity it holds, every
\* entry with that identity is gone and the other entries are unchanged and
\* in the same relative order.
C12_RemoveFrame ==
    last.op = "REMOVE" =>
        IF \E i \in DOMAIN last.before : Named(last.before[i])
        THEN /\ \A i \in DOMAIN repositories : ~Named(repositories[i])
             /\ repositories = SelectSeq(last.before, LAMBDA r : ~Named(r))
        ELSE repositories = last.before

\* A removal that dropped an entry and kept another one.
C12_Witness ==
    /\ last.op = "REMOVE"
    /\ \E i \in DOMAIN last.before : Named(last.before[i])
    /\ repositories # <<>>

\* C13: get_all_repositories returns a snapshot copy: the sequence a caller
\* got from it is not changed by a later add_repository or remove_repository.
C13_SnapshotCopy ==
    [][(held # NoList /\ last'.op # "LIST") => HeldItems' = HeldItems]_vars

\* C14: a source that hangs cannot hang the aggregation: while a
\* fetch_messages_from_all call is running it can always take its next step,
\* the fetch of a source whose remote call does not return ending with a
\* timeout error, so that the other sources are fetched and the call returns.
C14_HungSourceTimesOut == cycle.pc = "running" => ENABLED FetchStep

\* The registry without the last_sync fields.
Configured(repos) ==
    [i \in DOMAIN repos |->
        [owner |-> repos[i].owner, name |-> repos[i].name, token |-> repos[i].token]]

\* C15 as stated: fetch_messages_from_all mutates no shared component: the
\* registry, every field of every entry included, the store and the cache are
\* after the call what they were before it.
C15_FetchMutatesNothing ==
    [][last'.op = "FETCH" =>
          UNCHANGED <<repositories, db_repositories, db_messages,
                      message_cache, last_cache_update, callers>>]_vars

\* C15, amended: fetch_messages_from_all leaves the store, the cache, the
\* membership and order of the registry and the owner, name and token of
\* every entry unchanged; the only field it writes is last_sync.
C15_FetchWritesOnlyLastSync ==
    [][last'.op = "FETCH" =>
          /\ Configured(repositories') = Configured(repositories)
          /\ UNCHANGED <<db_repositories, db_messages, message_cache,
                         last_cache_update, callers>>]_vars

\* A fetch that failed for one entry and stamped another.
C15_Witness ==
    /\ last.op = "FETCH"
    /\ \E i \in DOMAIN repositories : last.fails[i] # None
    /\ \E i \in DOMAIN repositories : repositories[i].last_sync = now

\* C16: when db.save_message raises during POST /chat, the response's
\* top-level status is "error", never "success".
C16_StoreErrorSurfaced ==
    (/\ last.op = "POST"
     /\ \E i \in DOMAIN last.responses : last.responses[i].status = "error"
                                         /\ last.responses[i].error = "store")
        => last.status = "error"

\* C17: when the store fails while GET /messages is served, the client gets
\* HTTP 200 with a JSON object that has an `error` field, never an empty or
\* truncated body.
C17_GetStoreErrorReported ==
    last.op = "GET_ERROR" => last.http = 200 /\ last.body = "error"

\* The registry positions that name the same source as position i and whose
\* remote publish failed in the last POST.
FailedPublishes(i) ==
    { j \in DOMAIN repositories :
        /\ full_name(repositories[j]) = full_name(repositories[i])
        /\ last.outs[j] = "remote_err" }

\* The rows the last POST inserted for the source at position i that carry
\* no commit.
UnpublishedRows(i) ==
    { r \in Range(db_messages) :
        /\ r.id \in last.written
        /\ r.repository_id = get_repository_id(repositories[i].owner, repositories[i].name)
        /\ r.github_url = None }

C19_OneEntryPerSource ==
    (last.op = "POST" /\ last.http = 200) =>
        /\ Len(last.responses) = Len(repositories)
        /\ \A i \in DOMAIN repositories :
               /\ last.responses[i].repository = full_name(repositories[i])
               /\ \/ /\ last.responses[i].status = "success"
                     /\ "github_url" \in DOMAIN last.responses[i]
                  \/ /\ last.responses[i].status = "error"
                     /\ "error" \in DOMAIN last.responses[i]
        /\ \A i, j \in DOMAIN last.responses :
               last.responses[i].repository = last.responses[j].repository => i = j

C21_NoLostUpdate ==
    [][(removing # NoRemoval /\ removing' = NoRemoval) =>
          \A i \in DOMAIN repositories :
              ~(repositories[i].owner = removing.owner
                /\ repositories[i].name = removing.name)
                  => \E j \in DOMAIN repositories' : repositories'[j] = repositories[i]]_vars
\* C22: when several threads call save_message at once, the ids returned
\* are pairwise distinct, every returned id names exactly one row of the
\* table and that row, unless deleted since, holds the text of its call, and
\* the table holds one row per call that has written (completed calls plus
\* those between their commit and their return).
C22_ConcurrentSavesKeepEveryRow ==
    /\ \A j, k \in DOMAIN returned : j # k => returned[j].id # returned[k].id
    /\ \A k \in DOMAIN returned :
          /\ Cardinality({ i \in DOMAIN db_messages :
                               db_messages[i].id = returned[k].id }) = 1
          /\ \A i \in DOMAIN db_messages :
                (db_messages[i].id = returned[k].id
                 /\ "deleted" \notin DOMAIN db_messages[i])
                    => db_messages[i].message = returned[k].message
    /\ Len(db_messages)
          = Len(returned) + Cardinality({ t \in Savers : savers[t].pc = "l73" })

\* Two calls overlapped: the one that wrote second has returned while the
\* one that wrote first has not.
C22_Witness ==
    \E t \in Savers :
        /\ savers[t].pc = "l73"
        /\ \E k \in DOMAIN returned : returned[k].id > savers[t].lastrowid

\* The limits a caller passes, and the messages a listing is about: those
\* of one stored repository, or of any stored repository without a filter.
Limits == 0..MaxRows

Scope(repository_id) ==
    { m \in LiveRows(db_messages) :
        /\ \E r \in Range(db_repositories) : r.id = m.repository_id
        /\ (repository_id # None => m.repository_id = repository_id) }

C24_SaveAssignsMonotonicId ==
    [][/\ last'.op = "SAVE" =>
            /\ last'.id > last'.floor
            /\ Cardinality({ i \in DOMAIN db_messages' :
                                 db_messages'[i].id = last'.id }) = 1
            /\ \A i \in DOMAIN db_messages' :
                  (db_messages'[i].id = last'.id
                   /\ "deleted" \notin DOMAIN db_messages'[i])
                      => db_messages'[i].message = last'.message
       /\ \A t \in Savers :
            (savers[t].pc = "l64" /\ savers'[t] = NotSaving)
                => /\ last'.op = "SAVE_ERROR"
                   /\ last'.raised
                   /\ last'.message = savers[t].message
                   /\ db_messages' = db_messages]_vars

\* A call has returned an id after the row of the greatest id returned
\* before it was deleted.
C24_Witness ==
    /\ last.op = "SAVE"
    /\ last.floor > 0
    /\ \E i \in DOMAIN db_messages :
          /\ "deleted" \in DOMAIN db_messages[i]
          /\ db_messages[i].id = last.floor
    /\ \E i \in DOMAIN db_messages :
          /\ "deleted" \notin DOMAIN db_messages[i]
          /\ db_messages[i].id = last.id

\* The rows of the repositories table tbl for (owner, name).
RowsOf(tbl, owner, name) ==
    { i \in DOMAIN tbl : tbl[i].owner = owner /\ tbl[i].name = name }

\* C25: the repositories table never holds two rows for one (owner, name);
\* get_repository_id returns None exactly for the pairs without a row; a
\* call add_repository(owner, name) returns the id get_repository_id
\* returns from then on, leaves exactly one row for the pair and keeps every
\* row that was there, and a repeated call returns the id of the first and
\* changes nothing.
C25_AddRepositoryIdempotent ==
    /\ \A o \in Owners, n \in Names :
          /\ Cardinality(RowsOf(db_repositories, o, n)) <= 1
          /\ (get_repository_id(o, n) = None) <=> (RowsOf(db_repositories, o, n) = {})
          /\ \A i \in RowsOf(db_repositories, o, n) :
                get_repository_id(o, n) = db_repositories[i].id
    /\ \A i, j \in DOMAIN db_repositories :
          i # j => db_repositories[i].id # db_repositories[j].id
    /\ last.op = "ENSURE" =>
          /\ last.ret # None
          /\ get_repository_id(last.owner, last.name) = last.ret
          /\ Cardinality(RowsOf(db_repositories, last.owner, last.name)) = 1
          /\ \A i \in DOMAIN last.before :
                i \in DOMAIN db_repositories /\ db_repositories[i] = last.before[i]
          /\ RowsOf(last.before, last.owner, last.name) # {} =>
                /\ last.ret = RepositoryIdIn(last.before, last.owner, last.name)
                /\ db_repositories = last.before

\* add_repository was called again for a pair that already had its row,
\* beside the row of another pair.
C25_Witness ==
    /\ last.op = "ENSURE"
    /\ RowsOf(last.before, last.owner, last.name) # {}
    /\ Len(db_repositories) = 2

\* C26: when GitHub answers the listing and no commit matches the filters,
\* get_commits returns the empty list and does not raise.
C26_ZeroCommitsIsSuccess ==
    (/\ last.op = "COMMITS"
     /\ last.fail_at # 0
     /\ Matching(remote[last.repo], last.since, last.until) = <<>>)
        => ~last.out.raised /\ last.out.result = <<>>

\* get_commits has returned for a remote that holds commits, none of them
\* inside the filters.
C26_Witness ==
    /\ last.op = "COMMITS"
    /\ remote[last.repo] # <<>>
    /\ last.max_count > 0
    /\ Matching(remote[last.repo], last.since, last.until) = <<>>
    /\ ~last.out.raised
    /\ last.out.result = <<>>

\* C27: a POST /chat whose body carries no message is answered with HTTP
\* 200, and save_message is called exactly once, with the empty string.
C27_EmptyPostSavedOnce ==
    (last.op = "POST" /\ last.message = "")
        => last.http = 200 /\ last.saved = <<"">>

\* C28: whatever was saved, every list get_messages returns without a
\* filter has a later-saved message (greater id) before every earlier-saved
\* one, also when both were saved within the same second.
C28_ReverseInsertionOrder ==
    \A res \in get_messages(MaxRows, None) :
        \A i, j \in DOMAIN res : i < j => res[i].id > res[j].id

\* The git steps of push_file, in the order of lines 31, 35 and 39.
Steps == <<"add", "commit", "push">>

\* ran holds the first steps of Steps in order, and only its last step can
\* have failed.
RanInOrder(ran) ==
    /\ Len(ran) <= Len(Steps)
    /\ \A i \in DOMAIN ran : ran[i].cmd = Steps[i]
    /\ \A i \in DOMAIN ran : i < Len(ran) => ran[i].ok

\* C29: push_file runs git add, git commit and git push in that order, each
\* at most once and none after a step that failed; it returns True exactly
\* when all three ran and succeeded, and False when a step failed, which is
\* then the last step it ran.
C29_PushRunsStepsInOrder ==
    /\ RanInOrder(git.ran)
    /\ git.pc = "idle" /\ git.calls > 0 => last.op = "PUSH" /\ last.ran = git.ran
    /\ last.op = "PUSH" =>
          /\ RanInOrder(last.ran)
          /\ last.ran # <<>>
          /\ last.ret <=> (Len(last.ran) = Len(Steps) /\ \A i \in DOMAIN last.ran : last.ran[i].ok)
          /\ ~last.ret <=> ~last.ran[Len(last.ran)].ok

\* push_file has returned False after git commit failed, on a working copy
\* an earlier call pushed from.
C29_Witness ==
    /\ last.op = "PUSH"
    /\ ~last.ret
    /\ Len(last.ran) = 2
    /\ git.origin # <<>>

\* The registry entries whose (owner, name) has a row in the store.
WithStoreId ==
    { i \in DOMAIN repositories :
        \E r \in Range(db_repositories) :
            r.owner = repositories[i].owner /\ r.name = repositories[i].name }

\* The ids of the stored messages of the registered sources.
RegisteredRowIds ==
    { m.id : m \in { x \in LiveRows(db_messages) :
                       \E i \in WithStoreId :
                           x.repository_id = get_repository_id(repositories[i].owner,
                                                               repositories[i].name) } }

\* C30: a GET /messages that returns either finds the cache fresh and
\* non-empty, then it queries the store not at all and leaves payload and
\* timestamp as they were; or it queries the store once for every registry
\* entry that has a store id, replaces the payload by the stored messages of
\* those sources, newest first, sets the timestamp to the instant the call
\* read at its start, and returns the new payload.
C30_ReadPath ==
    [][last'.op = "GET" =>
          IF CacheHit(now)
          THEN /\ last'.hit
               /\ last'.queries = 0
               /\ message_cache' = message_cache
               /\ last_cache_update' = last_cache_update
          ELSE /\ ~last'.hit
               /\ last'.queries = Cardinality(WithStoreId)
               /\ last_cache_update' = now
               /\ now' = now
               /\ SortedByTimeDesc(message_cache')
               /\ { message_cache'[k].id : k \in DOMAIN message_cache' } = RegisteredRowIds
               /\ Returned' = message_cache']_vars

\* A miss that filled the cache while one of two registered sources had a
\* store id and the other had none.
C30_Witness ==
    /\ last.op = "GET"
    /\ ~last.hit
    /\ last.queries = 1
    /\ Len(repositories) = 2
    /\ message_cache # <<>>
    /\ last_cache_update = now
    /\ now > 0

\* C31: a source whose fetch failed, also part-way through its commits,
\* contributes nothing to what fetch_messages_from_all returns: no returned
\* message names it, unless another registry entry of the same source
\* succeeded.
C31_FailedSourceContributesNothing ==
    last.op = "FETCH" =>
        \A i \in DOMAIN repositories \ Succeeded :
            (\A k \in Succeeded : full_name(repositories[k]) # full_name(repositories[i]))
                => \A j \in DOMAIN last.ret :
                       last.ret[j].repository # full_name(repositories[i])
WellFormed(value) ==
    \E i, j \in DOMAIN value :
        /\ 1 < i /\ i + 1 < j /\ j < Len(value)
        /\ value[i] = "/" /\ value[j] = ":"
        /\ \A k \in DOMAIN value : value[k] = ":" => k = j
        /\ \A k \in 1..(j - 1) : value[k] = "/" => k = i

\* C33: once the registry is loaded from the environment its entries are,
\* in order, those of the well-formed GITHUB_REPO_* values and of no other
\* value, each with a non-empty owner, name and token.
C33_OnlyWellFormedRegistered ==
    environ.loaded =>
        /\ Len(repositories)
              = Cardinality({ k \in DOMAIN environ.values : WellFormed(environ.values[k]) })
        /\ \A i \in DOMAIN repositories :
              /\ repositories[i].owner # <<>>
              /\ repositories[i].name # <<>>
              /\ repositories[i].token # <<>>
              /\ \E k \in DOMAIN environ.values :
                    /\ WellFormed(environ.values[k])
                    /\ environ.values[k]
                          = repositories[i].owner \o <<"/">> \o repositories[i].name
                              \o <<":">> \o repositories[i].token

\* The commits the remote lists for the last get_commits call, in its order.
Listed == Matching(remote[last.repo], last.since, last.until)

\* A GitHub call of the last get_commits call raised: the listing itself, or
\* the reading of one of the first max_count commits.
CallFailed ==
    /\ last.fail_at # None
    /\ \/ last.fail_at = 0
       \/ last.fail_at < Len(Listed) /\ last.fail_at < last.max_count

\* C34: get_commits either returns the first max_count commits the remote
\* lists (all of them when there are fewer), in the remote's order, each as
\* one CommitInfo carrying that commit's sha, message, author and date; or,
\* when a GitHub call failed, raises and returns nothing.
C34_FirstMaxCountOrRaise ==
    last.op = "COMMITS" =>
        IF CallFailed
        THEN last.out.raised /\ last.out.result = <<>>
        ELSE /\ ~last.out.raised
             /\ Len(last.out.result) <= last.max_count
             /\ Len(last.out.result)
                   = (IF Len(Listed) <= last.max_count THEN Len(Listed) ELSE last.max_count)
             /\ \A i \in DOMAIN last.out.result :
                   /\ last.out.result[i].sha = Listed[i].sha
                   /\ last.out.result[i].message = Listed[i].message
                   /\ last.out.result[i].author_name = Listed[i].author
                   /\ last.out.result[i].timestamp = Listed[i].date
                   /\ last.out.result[i].url = Listed[i].sha

\* get_commits raised after it had converted the first of two commits.
C34_Witness ==
    /\ last.op = "COMMITS"
    /\ Len(Listed) = 2
    /\ last.max_count = 2
    /\ last.fail_at = 1
    /\ last.out.raised

\* C35: a GET /messages whose refresh fails in a store call leaves
\* message_cache and last_cache_update exactly as they were before the
\* request.
C35_FailedRefreshKeepsCache ==
    [][last'.op = "GET_ERROR" =>
          /\ message_cache' = message_cache
          /\ last_cache_update' = last_cache_update
          /\ last'.cache_before = [message_cache |-> message_cache,
                                   last_cache_update |-> last_cache_update]]_vars

\* A refresh failed while the cache held a list older than CACHE_DURATION,
\* and the cache still holds it, as old as it was.
C35_Witness ==
    /\ last.op = "GET_ERROR"
    /\ message_cache # <<>>
    /\ message_cache = last.cache_before.message_cache
    /\ now - last_cache_update >= CACHE_DURATION

C37_AcceptedMessagePersisted ==
    (last.op = "POST" /\ last.message # "" /\ last.status = "success") =>
        /\ last.saved # <<>>
        /\ \E id \in last.written :
              id \in DOMAIN db_messages /\ db_messages[id].message = last.message
\* C38: fetch_messages_from_all keeps the registry's entries in place with
\* their owner, name and token; it sets last_sync, to the time of the call,
\* for exactly the entries whose commits were all read without error, and
\* leaves the last_sync of an entry whose fetch failed as it was.
C38_LastSyncOnlyOnSuccess ==
    [][last'.op = "FETCH" =>
          /\ Len(repositories') = Len(repositories)
          /\ \A i \in DOMAIN repositories :
                /\ repositories'[i].owner = repositories[i].owner
                /\ repositories'[i].name = repositories[i].name
                /\ repositories'[i].token = repositories[i].token
                /\ last'.fails[i] = None => repositories'[i].last_sync = now
                /\ last'.fails[i] # None =>
                      repositories'[i].last_sync = repositories[i].last_sync]_vars

\* The first source failed after one of its commits was read and was never
\* synchronised; the second was fetched whole and carries the time of the
\* call.
C38_Witness ==
    /\ last.op = "FETCH"
    /\ Len(repositories) = 2
    /\ last.fails[1] = 1
    /\ repositories[1].last_sync = None
    /\ last.fails[2] = None
    /\ repositories[2].last_sync = now

\* C39: every row save_message has stored, whatever repository_id it was
\* given, and that was not deleted since, is in every list an unfiltered
\* get_messages returns when the limit is at least the number of rows.
C39_EveryStoredMessageListable ==
    \A m \in LiveRows(db_messages) :
        \A res \in get_messages(MaxRows, None) :
            \E i \in DOMAIN res : res[i].id = m.id /\ res[i].message = m.message
====
